---- MODULE Spec2Model ----
(***************************************************************************)
(* Model of forex-fetcher (gha_run.py): fetch_bars -> add_metrics ->       *)
(* ensure_table -> upsert_rows, run by main(), against the forex_bars      *)
(* table of a PostgreSQL store.                                            *)
(*                                                                         *)
(* Data conventions.                                                       *)
(*  - A provider "datetime" string "2024-01-02 HH:MM:00" is the token pair *)
(*    <<HH, MM>>; strptime turns it into minutes since midnight (UTC) or   *)
(*    raises ValueError.                                                   *)
(*  - A provider price string is the sequence of its characters ("1.5" is  *)
(*    <<"1", ".", "5">>); float() turns it into the nearest binary64 value *)
(*    or raises ValueError.                                                *)
(*  - A Python float is the record [kind, neg, m, e]: kind "fin" stands    *)
(*    for (-1)^neg * m * 2^e, kinds "inf" and "nan" for the infinities and *)
(*    not-a-number. The mantissa m is a natural number of any size, kept   *)
(*    as the little-endian sequence of its base-2^15 digits (1.5 is        *)
(*    3 * 2^51 * 2^-52, m = <<0, 0, 0, 192>>, e = -52). Every operation    *)
(*    rounds its exact result to the nearest float, ties to even.          *)
(***************************************************************************)
EXTENDS Integers, Sequences, FiniteSets, TLC

\* ------------------------------------------------------------- bounds
MaxRows == 2       \* longest provider response / direct batch
MaxRuns == 2       \* scheduled runs of main() in a row
MaxPrice == 10     \* the add_metrics grid has the prices 1.0990 + 0..MaxPrice pips

\* ---------------------------------------------------------- constants
outputsize == 10
SYMBOL == "EUR/USD"

Procs == {1, 2}

\* ------------------------------------------------------------ helpers
Abs(x) == IF x < 0 THEN -x ELSE x

Min(a, b) == IF a < b THEN a ELSE b

Reverse(s) == [i \in 1..Len(s) |-> s[Len(s) + 1 - i]]

\* ------------------------------------------- naturals of any size
\* A natural is the little-endian sequence of its limbs below Base, without
\* leading zero limbs; <<>> is 0.
LimbBits == 15

\* TRUE for every x; testing it evaluates x on the spot, which keeps the
\* evaluation of a long accumulation shallow
Eager(x) == x = x

Base == 2^LimbBits

Limb(a, i) == IF 1 <= i /\ i <= Len(a) THEN a[i] ELSE 0

\* a without its leading zero limbs
BNorm(a) ==
    IF \A i \in 1..Len(a) : a[i] = 0 THEN <<>>
    ELSE SubSeq(a, 1, CHOOSE i \in 1..Len(a) :
                          a[i] # 0 /\ \A j \in (i + 1)..Len(a) : a[j] = 0)

RECURSIVE BFromInt(_)
BFromInt(n) == IF n = 0 THEN <<>> ELSE <<n % Base>> \o BFromInt(n \div Base)

\* -1, 0 or 1 as a < b, a = b or a > b
BCmp(a, b) ==
    IF Len(a) # Len(b) THEN (IF Len(a) < Len(b) THEN -1 ELSE 1)
    ELSE IF a = b THEN 0
    ELSE LET i == CHOOSE i \in 1..Len(a) :
                      a[i] # b[i] /\ \A j \in (i + 1)..Len(a) : a[j] = b[j]
         IN IF a[i] < b[i] THEN -1 ELSE 1

\* a + b: limb i receives a carry when a lower limb overflows and every limb
\* in between is full
BAdd(a, b) ==
    LET n == (IF Len(a) < Len(b) THEN Len(b) ELSE Len(a)) + 1
        s == SubSeq([i \in 1..n |-> Limb(a, i) + Limb(b, i)], 1, n)
        carry(i) == \E j \in 1..(i - 1) :
                        s[j] >= Base /\ \A k \in (j + 1)..(i - 1) : s[k] = Base - 1
    IN BNorm([i \in 1..n |-> (s[i] + IF carry(i) THEN 1 ELSE 0) % Base])

\* a - b for a >= b: limb i lends when a lower limb falls short and every
\* limb in between is level
BSub(a, b) ==
    LET borrow(i) == \E j \in 1..(i - 1) :
                         /\ a[j] < Limb(b, j)
                         /\ \A k \in (j + 1)..(i - 1) : a[k] = Limb(b, k)
    IN BNorm([i \in 1..Len(a) |->
                 (a[i] - Limb(b, i) - (IF borrow(i) THEN 1 ELSE 0) + Base) % Base])

\* a * k for 0 <= k < Base: the low halves of the limb products plus their
\* high halves one limb up
BMulSmall(a, k) ==
    BAdd(BNorm([i \in 1..Len(a) |-> (a[i] * k) % Base]),
         BNorm(<<0>> \o [i \in 1..Len(a) |-> (a[i] * k) \div Base]))

\* a * 2^n
BShl(a, n) ==
    LET r == n % LimbBits
    IN IF a = <<>> THEN <<>>
       ELSE [i \in 1..(n \div LimbBits) |-> 0]
            \o BNorm([i \in 1..(Len(a) + 1) |->
                         (Limb(a, i) % 2^(LimbBits - r)) * 2^r
                         + (Limb(a, i - 1) \div 2^(LimbBits - r))])

\* floor(a / 2^n)
BShr(a, n) ==
    LET q == n \div LimbBits
        r == n % LimbBits
    IN BNorm([i \in 1..(Len(a) - q) |->
                 (a[q + i] \div 2^r) + (Limb(a, q + i + 1) % 2^r) * 2^(LimbBits - r)])

RECURSIVE BMulAt(_, _, _, _)
BMulAt(a, b, i, acc) ==
    IF i > Len(b) \/ ~Eager(acc) THEN acc
    ELSE BMulAt(a, b, i + 1,
                BAdd(acc, BNorm([j \in 1..(i - 1) |-> 0] \o BMulSmall(a, b[i]))))

\* a * b
BMul(a, b) == BMulAt(a, b, 1, <<>>)

\* bit i of a, bit 0 the lowest
BBit(a, i) == (Limb(a, (i \div LimbBits) + 1) \div 2^(i % LimbBits)) % 2

\* a mod 2^n = 0
BLowZero(a, n) ==
    /\ \A i \in 1..(n \div LimbBits) : Limb(a, i) = 0
    /\ Limb(a, (n \div LimbBits) + 1) % 2^(n % LimbBits) = 0

BBitLen(a) ==
    IF a = <<>> THEN 0
    ELSE LimbBits * (Len(a) - 1)
         + (CHOOSE k \in 1..LimbBits : 2^(k - 1) <= a[Len(a)] /\ a[Len(a)] < 2^k)

\* the next limb of the quotient: floor(r / d) for r < d * Base, where the top
\* limb of d is at least Base / 2. The quotient of the top limbs is that
\* limb, or above it by one or two.
BDivDigit(r, d) ==
    LET top == Limb(r, Len(d) + 1) * Base + Limb(r, Len(d))
        est == IF top \div d[Len(d)] < Base THEN top \div d[Len(d)] ELSE Base - 1
    IN IF BCmp(BMulSmall(d, est), r) <= 0 THEN est
       ELSE IF BCmp(BMulSmall(d, est - 1), r) <= 0 THEN est - 1
       ELSE est - 2

\* long division, limb by limb from the top of u: r is the remainder so far
\* and q the limbs of the quotient so far, u[i] is the limb taken next
RECURSIVE BDivLoop(_, _, _, _, _)
BDivLoop(u, d, i, r, q) ==
    IF i < 1 \/ ~Eager(q) \/ ~Eager(r) THEN [quot |-> BNorm(q), rem |-> r]
    ELSE LET t == BNorm(<<u[i]>> \o r)
             g == BDivDigit(t, d)
         IN BDivLoop(u, d, i - 1, BSub(t, BMulSmall(d, g)), <<g>> \o q)

\* floor(a / b) and a mod b, for b > 0: both are shifted until the top limb
\* of the divisor is at least Base / 2
BDivMod(a, b) ==
    IF BCmp(a, b) < 0 THEN [quot |-> <<>>, rem |-> a]
    ELSE LET k == (LimbBits - (BBitLen(b) % LimbBits)) % LimbBits
             u == BShl(a, k)
             d == BShl(b, k)
             i == Len(u) - Len(d) + 1
             res == BDivLoop(u, d, i, SubSeq(u, i + 1, Len(u)), <<>>)
         IN [quot |-> res.quot, rem |-> BShr(res.rem, k)]

RECURSIVE BPow10(_)
BPow10(k) ==
    IF k = 0 THEN <<1>>
    ELSE IF k % 2 = 1 THEN BMulSmall(BPow10(k - 1), 10)
    ELSE LET h == BPow10(k \div 2) IN BMul(h, h)

\* --------------------------------------------------- binary64 floats
\* A float is [kind, neg, m, e]: kind "fin" is (-1)^neg * m * 2^e with m a
\* natural of exactly MantBits bits (or fewer, at e = MinExp: subnormal), zero
\* being m = <<>>, e = 0; kinds "inf" and "nan" carry m = <<>>, e = 0.
MantBits == 53

MinExp == -1074

MaxExp == 971

Zero(neg) == [kind |-> "fin", neg |-> neg, m |-> <<>>, e |-> 0]

Inf(neg) == [kind |-> "inf", neg |-> neg, m |-> <<>>, e |-> 0]

NaN == [kind |-> "nan", neg |-> FALSE, m |-> <<>>, e |-> 0]

IsZero(a) == a.kind = "fin" /\ a.m = <<>>

Finish(neg, m, e) ==
    IF m = <<>> THEN Zero(neg)
    ELSE IF BBitLen(m) > MantBits
         THEN (IF e + 1 > MaxExp THEN Inf(neg)
               ELSE [kind |-> "fin", neg |-> neg, m |-> BShr(m, 1), e |-> e + 1])
    ELSE IF e > MaxExp THEN Inf(neg)
    ELSE [kind |-> "fin", neg |-> neg, m |-> m, e |-> e]

\* the float nearest to (-1)^neg * (q + f) * 2^x, ties to even, where q > 0
\* and f is a fraction in (0, 1) if sticky and 0 otherwise
RoundBits(neg, q, sticky, x) ==
    LET e0 == x + BBitLen(q) - MantBits
        e == IF e0 < MinExp THEN MinExp ELSE e0
        drop == e - x
    IN IF drop <= 0 THEN Finish(neg, BShl(q, -drop), e)
       ELSE LET m0 == BShr(q, drop)
                up == /\ BBit(q, drop - 1) = 1
                      /\ \/ sticky
                         \/ ~BLowZero(q, drop - 1)
                         \/ BBit(m0, 0) = 1
            IN Finish(neg, IF up THEN BAdd(m0, <<1>>) ELSE m0, e)

\* the float nearest to (-1)^neg * (n / d) * 2^x, for n > 0 and d > 0
RoundRatio(neg, n, d, x) ==
    IF d = <<1>> THEN RoundBits(neg, n, FALSE, x)
    ELSE LET gap == BBitLen(n) - BBitLen(d)
             s == IF gap < MantBits + 2 THEN MantBits + 2 - gap ELSE 0
             qr == BDivMod(BShl(n, s), d)
         IN RoundBits(neg, qr.quot, qr.rem # <<>>, x - s)

FromInt(n) ==
    IF n = 0 THEN Zero(FALSE) ELSE RoundBits(n < 0, BFromInt(Abs(n)), FALSE, 0)

FNeg(a) == IF a.kind = "nan" THEN a ELSE [a EXCEPT !.neg = ~a.neg]

\* abs(a)
FAbs(a) == IF a.kind = "nan" THEN a ELSE [a EXCEPT !.neg = FALSE]

\* a + b
FAdd(a, b) ==
    IF a.kind = "nan" \/ b.kind = "nan" THEN NaN
    ELSE IF a.kind = "inf"
         THEN (IF b.kind = "inf" /\ a.neg # b.neg THEN NaN ELSE a)
    ELSE IF b.kind = "inf" THEN b
    ELSE IF IsZero(a) /\ IsZero(b) THEN Zero(a.neg /\ b.neg)
    ELSE IF IsZero(a) THEN b
    ELSE IF IsZero(b) THEN a
    ELSE LET x == IF a.e < b.e THEN a.e ELSE b.e
             ma == BShl(a.m, a.e - x)
             mb == BShl(b.m, b.e - x)
             c == BCmp(ma, mb)
         IN IF a.neg = b.neg THEN RoundBits(a.neg, BAdd(ma, mb), FALSE, x)
            ELSE IF c = 0 THEN Zero(FALSE)
            ELSE IF c > 0 THEN RoundBits(a.neg, BSub(ma, mb), FALSE, x)
            ELSE RoundBits(b.neg, BSub(mb, ma), FALSE, x)

\* a - b
FSub(a, b) == FAdd(a, FNeg(b))

\* a * b
FMul(a, b) ==
    IF a.kind = "nan" \/ b.kind = "nan" THEN NaN
    ELSE IF a.kind = "inf" \/ b.kind = "inf"
         THEN (IF IsZero(a) \/ IsZero(b) THEN NaN ELSE Inf(a.neg # b.neg))
    ELSE IF IsZero(a) \/ IsZero(b) THEN Zero(a.neg # b.neg)
    ELSE RoundBits(a.neg # b.neg, BMul(a.m, b.m), FALSE, a.e + b.e)

\* a / b: the quotient, or ZeroDivisionError (ok = FALSE) when b is zero
TrueDiv(a, b) ==
    IF IsZero(b) THEN [ok |-> FALSE, val |-> NaN]
    ELSE IF a.kind = "nan" \/ b.kind = "nan" THEN [ok |-> TRUE, val |-> NaN]
    ELSE IF a.kind = "inf"
         THEN [ok |-> TRUE,
               val |-> IF b.kind = "inf" THEN NaN ELSE Inf(a.neg # b.neg)]
    ELSE IF b.kind = "inf" \/ IsZero(a)
         THEN [ok |-> TRUE, val |-> Zero(a.neg # b.neg)]
    ELSE [ok |-> TRUE, val |-> RoundRatio(a.neg # b.neg, a.m, b.m, a.e - b.e)]

\* -1, 0 or 1 as |a| < |b|, |a| = |b| or |a| > |b|, for finite a and b
MagCmp(a, b) ==
    IF IsZero(a) \/ IsZero(b)
    THEN (IF IsZero(a) /\ IsZero(b) THEN 0 ELSE IF IsZero(a) THEN -1 ELSE 1)
    ELSE LET x == IF a.e < b.e THEN a.e ELSE b.e
         IN BCmp(BShl(a.m, a.e - x), BShl(b.m, b.e - x))

\* a > b
FGreater(a, b) ==
    IF a.kind = "nan" \/ b.kind = "nan" THEN FALSE
    ELSE IF a.kind = "inf" THEN ~a.neg /\ ~(b.kind = "inf" /\ ~b.neg)
    ELSE IF b.kind = "inf" THEN b.neg
    ELSE IF IsZero(a) /\ IsZero(b) THEN FALSE
    ELSE IF a.neg # b.neg THEN b.neg
    ELSE IF a.neg THEN MagCmp(a, b) < 0
    ELSE MagCmp(a, b) > 0

\* ------------------------------------------------------ float(text)
\* A string is the sequence of its characters.  A character up to U+00FF is
\* the one-character string; a character above U+00FF, which a string
\* constant cannot hold, is written as the name of its code point ("U+0663").
\*
\* float() of a str first replaces every Unicode decimal digit by its ASCII
\* digit and every Unicode whitespace character above U+007E by a space, and
\* then reads the ASCII text.  DigitRows lists the decimal digits, one row
\* per script, each row from zero to nine.
DigitRows ==
    <<
       <<"0", "1", "2", "3", "4", "5", "6", "7", "8", "9">>,
       <<"U+0660", "U+0661", "U+0662", "U+0663", "U+0664",
         "U+0665", "U+0666", "U+0667", "U+0668", "U+0669">>,
       <<"U+06F0", "U+06F1", "U+06F2", "U+06F3", "U+06F4",
         "U+06F5", "U+06F6", "U+06F7", "U+06F8", "U+06F9">>,
       <<"U+07C0", "U+07C1", "U+07C2", "U+07C3", "U+07C4",
         "U+07C5", "U+07C6", "U+07C7", "U+07C8", "U+07C9">>,
       <<"U+0966", "U+0967", "U+0968", "U+0969", "U+096A",
         "U+096B", "U+096C", "U+096D", "U+096E", "U+096F">>,
       <<"U+09E6", "U+09E7", "U+09E8", "U+09E9", "U+09EA",
         "U+09EB", "U+09EC", "U+09ED", "U+09EE", "U+09EF">>,
       <<"U+0A66", "U+0A67", "U+0A68", "U+0A69", "U+0A6A",
         "U+0A6B", "U+0A6C", "U+0A6D", "U+0A6E", "U+0A6F">>,
       <<"U+0AE6", "U+0AE7", "U+0AE8", "U+0AE9", "U+0AEA",
         "U+0AEB", "U+0AEC", "U+0AED", "U+0AEE", "U+0AEF">>,
       <<"U+0B66", "U+0B67", "U+0B68", "U+0B69", "U+0B6A",
         "U+0B6B", "U+0B6C", "U+0B6D", "U+0B6E", "U+0B6F">>,
       <<"U+0BE6", "U+0BE7", "U+0BE8", "U+0BE9", "U+0BEA",
         "U+0BEB", "U+0BEC", "U+0BED", "U+0BEE", "U+0BEF">>,
       <<"U+0C66", "U+0C67", "U+0C68", "U+0C69", "U+0C6A",
         "U+0C6B", "U+0C6C", "U+0C6D", "U+0C6E", "U+0C6F">>,
       <<"U+0CE6", "U+0CE7", "U+0CE8", "U+0CE9", "U+0CEA",
         "U+0CEB", "U+0CEC", "U+0CED", "U+0CEE", "U+0CEF">>,
       <<"U+0D66", "U+0D67", "U+0D68", "U+0D69", "U+0D6A",
         "U+0D6B", "U+0D6C", "U+0D6D", "U+0D6E", "U+0D6F">>,
       <<"U+0DE6", "U+0DE7", "U+0DE8", "U+0DE9", "U+0DEA",
         "U+0DEB", "U+0DEC", "U+0DED", "U+0DEE", "U+0DEF">>,
       <<"U+0E50", "U+0E51", "U+0E52", "U+0E53", "U+0E54",
         "U+0E55", "U+0E56", "U+0E57", "U+0E58", "U+0E59">>,
       <<"U+0ED0", "U+0ED1", "U+0ED2", "U+0ED3", "U+0ED4",
         "U+0ED5", "U+0ED6", "U+0ED7", "U+0ED8", "U+0ED9">>,
       <<"U+0F20", "U+0F21", "U+0F22", "U+0F23", "U+0F24",
         "U+0F25", "U+0F26", "U+0F27", "U+0F28", "U+0F29">>,
       <<"U+1040", "U+1041", "U+1042", "U+1043", "U+1044",
         "U+1045", "U+1046", "U+1047", "U+1048", "U+1049">>,
       <<"U+1090", "U+1091", "U+1092", "U+1093", "U+1094",
         "U+1095", "U+1096", "U+1097", "U+1098", "U+1099">>,
       <<"U+17E0", "U+17E1", "U+17E2", "U+17E3", "U+17E4",
         "U+17E5", "U+17E6", "U+17E7", "U+17E8", "U+17E9">>,
       <<"U+1810", "U+1811", "U+1812", "U+1813", "U+1814",
         "U+1815", "U+1816", "U+1817", "U+1818", "U+1819">>,
       <<"U+1946", "U+1947", "U+1948", "U+1949", "U+194A",
         "U+194B", "U+194C", "U+194D", "U+194E", "U+194F">>,
       <<"U+19D0", "U+19D1", "U+19D2", "U+19D3", "U+19D4",
         "U+19D5", "U+19D6", "U+19D7", "U+19D8", "U+19D9">>,
       <<"U+1A80", "U+1A81", "U+1A82", "U+1A83", "U+1A84",
         "U+1A85", "U+1A86", "U+1A87", "U+1A88", "U+1A89">>,
       <<"U+1A90", "U+1A91", "U+1A92", "U+1A93", "U+1A94",
         "U+1A95", "U+1A96", "U+1A97", "U+1A98", "U+1A99">>,
       <<"U+1B50", "U+1B51", "U+1B52", "U+1B53", "U+1B54",
         "U+1B55", "U+1B56", "U+1B57", "U+1B58", "U+1B59">>,
       <<"U+1BB0", "U+1BB1", "U+1BB2", "U+1BB3", "U+1BB4",
         "U+1BB5", "U+1BB6", "U+1BB7", "U+1BB8", "U+1BB9">>,
       <<"U+1C40", "U+1C41", "U+1C42", "U+1C43", "U+1C44",
         "U+1C45", "U+1C46", "U+1C47", "U+1C48", "U+1C49">>,
       <<"U+1C50", "U+1C51", "U+1C52", "U+1C53", "U+1C54",
         "U+1C55", "U+1C56", "U+1C57", "U+1C58", "U+1C59">>,
       <<"U+A620", "U+A621", "U+A622", "U+A623", "U+A624",
         "U+A625", "U+A626", "U+A627", "U+A628", "U+A629">>,
       <<"U+A8D0", "U+A8D1", "U+A8D2", "U+A8D3", "U+A8D4",
         "U+A8D5", "U+A8D6", "U+A8D7", "U+A8D8", "U+A8D9">>,
       <<"U+A900", "U+A901", "U+A902", "U+A903", "U+A904",
         "U+A905", "U+A906", "U+A907", "U+A908", "U+A909">>,
       <<"U+A9D0", "U+A9D1", "U+A9D2", "U+A9D3", "U+A9D4",
         "U+A9D5", "U+A9D6", "U+A9D7", "U+A9D8", "U+A9D9">>,
       <<"U+A9F0", "U+A9F1", "U+A9F2", "U+A9F3", "U+A9F4",
         "U+A9F5", "U+A9F6", "U+A9F7", "U+A9F8", "U+A9F9">>,
       <<"U+AA50", "U+AA51", "U+AA52", "U+AA53", "U+AA54",
         "U+AA55", "U+AA56", "U+AA57", "U+AA58", "U+AA59">>,
       <<"U+ABF0", "U+ABF1", "U+ABF2", "U+ABF3", "U+ABF4",
         "U+ABF5", "U+ABF6", "U+ABF7", "U+ABF8", "U+ABF9">>,
       <<"U+FF10", "U+FF11", "U+FF12", "U+FF13", "U+FF14",
         "U+FF15", "U+FF16", "U+FF17", "U+FF18", "U+FF19">>,
       <<"U+104A0", "U+104A1", "U+104A2", "U+104A3", "U+104A4",
         "U+104A5", "U+104A6", "U+104A7", "U+104A8", "U+104A9">>,
       <<"U+10D30", "U+10D31", "U+10D32", "U+10D33", "U+10D34",
         "U+10D35", "U+10D36", "U+10D37", "U+10D38", "U+10D39">>,
       <<"U+11066", "U+11067", "U+11068", "U+11069", "U+1106A",
         "U+1106B", "U+1106C", "U+1106D", "U+1106E", "U+1106F">>,
       <<"U+110F0", "U+110F1", "U+110F2", "U+110F3", "U+110F4",
         "U+110F5", "U+110F6", "U+110F7", "U+110F8", "U+110F9">>,
       <<"U+11136", "U+11137", "U+11138", "U+11139", "U+1113A",
         "U+1113B", "U+1113C", "U+1113D", "U+1113E", "U+1113F">>,
       <<"U+111D0", "U+111D1", "U+111D2", "U+111D3", "U+111D4",
         "U+111D5", "U+111D6", "U+111D7", "U+111D8", "U+111D9">>,
       <<"U+112F0", "U+112F1", "U+112F2", "U+112F3", "U+112F4",
         "U+112F5", "U+112F6", "U+112F7", "U+112F8", "U+112F9">>,
       <<"U+11450", "U+11451", "U+11452", "U+11453", "U+11454",
         "U+11455", "U+11456", "U+11457", "U+11458", "U+11459">>,
       <<"U+114D0", "U+114D1", "U+114D2", "U+114D3", "U+114D4",
         "U+114D5", "U+114D6", "U+114D7", "U+114D8", "U+114D9">>,
       <<"U+11650", "U+11651", "U+11652", "U+11653", "U+11654",
         "U+11655", "U+11656", "U+11657", "U+11658", "U+11659">>,
       <<"U+116C0", "U+116C1", "U+116C2", "U+116C3", "U+116C4",
         "U+116C5", "U+116C6", "U+116C7", "U+116C8", "U+116C9">>,
       <<"U+11730", "U+11731", "U+11732", "U+11733", "U+11734",
         "U+11735", "U+11736", "U+11737", "U+11738", "U+11739">>,
       <<"U+118E0", "U+118E1", "U+118E2", "U+118E3", "U+118E4",
         "U+118E5", "U+118E6", "U+118E7", "U+118E8", "U+118E9">>,
       <<"U+11950", "U+11951", "U+11952", "U+11953", "U+11954",
         "U+11955", "U+11956", "U+11957", "U+11958", "U+11959">>,
       <<"U+11C50", "U+11C51", "U+11C52", "U+11C53", "U+11C54",
         "U+11C55", "U+11C56", "U+11C57", "U+11C58", "U+11C59">>,
       <<"U+11D50", "U+11D51", "U+11D52", "U+11D53", "U+11D54",
         "U+11D55", "U+11D56", "U+11D57", "U+11D58", "U+11D59">>,
       <<"U+11DA0", "U+11DA1", "U+11DA2", "U+11DA3", "U+11DA4",
         "U+11DA5", "U+11DA6", "U+11DA7", "U+11DA8", "U+11DA9">>,
       <<"U+16A60", "U+16A61", "U+16A62", "U+16A63", "U+16A64",
         "U+16A65", "U+16A66", "U+16A67", "U+16A68", "U+16A69">>,
       <<"U+16AC0", "U+16AC1", "U+16AC2", "U+16AC3", "U+16AC4",
         "U+16AC5", "U+16AC6", "U+16AC7", "U+16AC8", "U+16AC9">>,
       <<"U+16B50", "U+16B51", "U+16B52", "U+16B53", "U+16B54",
         "U+16B55", "U+16B56", "U+16B57", "U+16B58", "U+16B59">>,
       <<"U+1D7CE", "U+1D7CF", "U+1D7D0", "U+1D7D1", "U+1D7D2",
         "U+1D7D3", "U+1D7D4", "U+1D7D5", "U+1D7D6", "U+1D7D7">>,
       <<"U+1D7D8", "U+1D7D9", "U+1D7DA", "U+1D7DB", "U+1D7DC",
         "U+1D7DD", "U+1D7DE", "U+1D7DF", "U+1D7E0", "U+1D7E1">>,
       <<"U+1D7E2", "U+1D7E3", "U+1D7E4", "U+1D7E5", "U+1D7E6",
         "U+1D7E7", "U+1D7E8", "U+1D7E9", "U+1D7EA", "U+1D7EB">>,
       <<"U+1D7EC", "U+1D7ED", "U+1D7EE", "U+1D7EF", "U+1D7F0",
         "U+1D7F1", "U+1D7F2", "U+1D7F3", "U+1D7F4", "U+1D7F5">>,
       <<"U+1D7F6", "U+1D7F7", "U+1D7F8", "U+1D7F9", "U+1D7FA",
         "U+1D7FB", "U+1D7FC", "U+1D7FD", "U+1D7FE", "U+1D7FF">>,
       <<"U+1E140", "U+1E141", "U+1E142", "U+1E143", "U+1E144",
         "U+1E145", "U+1E146", "U+1E147", "U+1E148", "U+1E149">>,
       <<"U+1E2F0", "U+1E2F1", "U+1E2F2", "U+1E2F3", "U+1E2F4",
         "U+1E2F5", "U+1E2F6", "U+1E2F7", "U+1E2F8", "U+1E2F9">>,
       <<"U+1E950", "U+1E951", "U+1E952", "U+1E953", "U+1E954",
         "U+1E955", "U+1E956", "U+1E957", "U+1E958", "U+1E959">>,
       <<"U+1FBF0", "U+1FBF1", "U+1FBF2", "U+1FBF3", "U+1FBF4",
         "U+1FBF5", "U+1FBF6", "U+1FBF7", "U+1FBF8", "U+1FBF9">>
    >>

DigitChars == { DigitRows[r][i] : r \in 1..Len(DigitRows), i \in 1..10 }

IsDigit(c) == c \in DigitChars

DigitValue(c) ==
    (CHOOSE i \in 1..10 : \E r \in 1..Len(DigitRows) : DigitRows[r][i] = c) - 1

\* the ASCII digit of value d
AsciiDigit(d) == DigitRows[1][d + 1]

\* vertical tab, next line (U+0085) and no-break space (U+00A0)
VT == ""
NEL == ""
NBSP == " "

\* the whitespace float() strips at both ends: the six ASCII characters of
\* Py_ISSPACE, and the Unicode whitespace it has replaced by a space
\* (U+001C..U+001F are below U+007F, stay as they are and are not stripped)
IsSpace(c) ==
    c \in {" ", "\t", "\n", VT, "\f", "\r", NEL, NBSP,
           "U+1680", "U+2000", "U+2001", "U+2002", "U+2003", "U+2004", "U+2005",
           "U+2006", "U+2007", "U+2008", "U+2009", "U+200A", "U+2028", "U+2029",
           "U+202F", "U+205F", "U+3000"}

Lower(c) ==
    CASE c = "A" -> "a" [] c = "E" -> "e" [] c = "F" -> "f" [] c = "I" -> "i"
      [] c = "N" -> "n" [] c = "T" -> "t" [] c = "Y" -> "y" [] OTHER -> c

RECURSIVE LStrip(_)
LStrip(s) == IF s # <<>> /\ IsSpace(Head(s)) THEN LStrip(Tail(s)) ELSE s

RECURSIVE RStrip(_)
RStrip(s) ==
    IF s # <<>> /\ IsSpace(s[Len(s)]) THEN RStrip(SubSeq(s, 1, Len(s) - 1))
    ELSE s

AllDigits(s) == \A i \in 1..Len(s) : IsDigit(s[i])

\* underscores are allowed between two digits only
UnderscoresOk(s) ==
    \A i \in 1..Len(s) :
        s[i] = "_" => i > 1 /\ i < Len(s) /\ IsDigit(s[i - 1]) /\ IsDigit(s[i + 1])

NotUnderscore(c) == c # "_"

\* index of the first element of s in set C, 0 if there is none
FirstIn(s, C) ==
    IF \E i \in 1..Len(s) : s[i] \in C
    THEN CHOOSE i \in 1..Len(s) : s[i] \in C /\ \A j \in 1..(i - 1) : s[j] \notin C
    ELSE 0

RECURSIVE DropZeros(_)
DropZeros(s) ==
    IF s # <<>> /\ IsDigit(Head(s)) /\ DigitValue(Head(s)) = 0
    THEN DropZeros(Tail(s))
    ELSE s

RECURSIVE BFromDigits(_, _)
BFromDigits(s, acc) ==
    IF s = <<>> \/ ~Eager(acc) THEN acc
    ELSE BFromDigits(Tail(s), BAdd(BMulSmall(acc, 10), BFromInt(DigitValue(Head(s)))))

\* the largest exponent float() works with (MAX_ABS_EXP of its parser)
MAX_ABS_EXP == 1100000000

RECURSIVE ExpDigits(_, _)
ExpDigits(s, acc) ==
    IF s = <<>> \/ ~Eager(acc) THEN acc
    ELSE ExpDigits(Tail(s), 10 * acc + DigitValue(Head(s)))

\* the value of an exponent's digits: leading zeros are skipped, and an
\* exponent of more than nine significant digits counts as MAX_ABS_EXP
ExpValue(s) ==
    IF Len(DropZeros(s)) > 9 THEN MAX_ABS_EXP
    ELSE Min(MAX_ABS_EXP, ExpDigits(DropZeros(s), 0))

\* the float nearest to (-1)^neg * digits * 10^x
Decimal(neg, digits, x) ==
    LET sig == DropZeros(digits)
        top == Len(sig) + x
    IN IF sig = <<>> THEN Zero(neg)
       ELSE IF top > 310 THEN Inf(neg)
       ELSE IF top < -330 THEN Zero(neg)
       ELSE IF x >= 0
            THEN RoundBits(neg, BMul(BFromDigits(sig, <<>>), BPow10(x)), FALSE, 0)
       ELSE RoundRatio(neg, BFromDigits(sig, <<>>), BPow10(-x), 0)

\* digits [. digits] [(e|E) [+|-] digits] after the sign
Number(neg, s) ==
    LET ePos == FirstIn(s, {"e", "E"})
        mant == IF ePos = 0 THEN s ELSE SubSeq(s, 1, ePos - 1)
        expo == IF ePos = 0 THEN <<>> ELSE SubSeq(s, ePos + 1, Len(s))
        eSigned == expo # <<>> /\ Head(expo) \in {"+", "-"}
        eDigits == IF eSigned THEN Tail(expo) ELSE expo
        dot == FirstIn(mant, {"."})
        int == IF dot = 0 THEN mant ELSE SubSeq(mant, 1, dot - 1)
        frac == IF dot = 0 THEN <<>> ELSE SubSeq(mant, dot + 1, Len(mant))
        x == IF ePos = 0 THEN 0
             ELSE IF eSigned /\ Head(expo) = "-" THEN -ExpValue(eDigits)
             ELSE ExpValue(eDigits)
    IN IF /\ AllDigits(int) /\ AllDigits(frac) /\ Len(int) + Len(frac) >= 1
          /\ (ePos # 0 => eDigits # <<>> /\ AllDigits(eDigits))
       THEN [ok |-> TRUE, val |-> Decimal(neg, int \o frac, x - Len(frac))]
       ELSE [ok |-> FALSE, val |-> NaN]

\* float(text): the binary64 value, or ValueError (ok = FALSE)
float(text) ==
    LET t == RStrip(LStrip(text))
        u == SelectSeq(t, NotUnderscore)
        signed == u # <<>> /\ Head(u) \in {"+", "-"}
        neg == signed /\ Head(u) = "-"
        body == IF signed THEN Tail(u) ELSE u
        word == [i \in 1..Len(body) |-> Lower(body[i])]
    IN IF ~UnderscoresOk(t) THEN [ok |-> FALSE, val |-> NaN]
       ELSE IF word \in {<<"i", "n", "f">>,
                         <<"i", "n", "f", "i", "n", "i", "t", "y">>}
            THEN [ok |-> TRUE, val |-> Inf(neg)]
       ELSE IF word = <<"n", "a", "n">> THEN [ok |-> TRUE, val |-> NaN]
       ELSE Number(neg, body)

\* ------------------------------------------------- parsing (fetch_bars)
\* datetime.strptime(s, "%Y-%m-%d %H:%M:%S").replace(tzinfo=utc)
strptime(s) ==
    IF Len(s) = 2 /\ s[1] \in 0..23 /\ s[2] \in 0..59
    THEN [ok |-> TRUE, val |-> s[1] * 60 + s[2]]
    ELSE [ok |-> FALSE, val |-> 0]

\* float(row[f]): KeyError when the row has no field f, ValueError when its
\* text is no number, else the value
Converted(x) ==
    IF x.ok THEN [ok |-> TRUE, err |-> "none", val |-> x.val]
    ELSE [ok |-> FALSE, err |-> "ValueError", val |-> NaN]

FloatField(row, f) ==
    IF f \notin DOMAIN row THEN [ok |-> FALSE, err |-> "KeyError", val |-> NaN]
    ELSE Converted(float(row[f]))

\* the dict literal of bars.append: dt is the parsed datetime, and o, h, l, c
\* are the conversions of open, high, low and close, evaluated in this order;
\* the first one that fails raises
BarOf(dt, o, h, l, c) ==
    IF ~dt.ok THEN [ok |-> FALSE, err |-> dt.err]
    ELSE IF ~o.ok THEN [ok |-> FALSE, err |-> o.err]
    ELSE IF ~h.ok THEN [ok |-> FALSE, err |-> h.err]
    ELSE IF ~l.ok THEN [ok |-> FALSE, err |-> l.err]
    ELSE IF ~c.ok THEN [ok |-> FALSE, err |-> c.err]
    ELSE [ok |-> TRUE,
          bar |-> [symbol |-> SYMBOL, datetime |-> dt.val,
                   open |-> o.val, high |-> h.val,
                   low |-> l.val, close |-> c.val]]

\* row["datetime"] parsed: KeyError without the field, ValueError when the
\* text does not match the format
Stamped(row) ==
    IF "datetime" \notin DOMAIN row THEN [ok |-> FALSE, err |-> "KeyError", val |-> 0]
    ELSE IF ~strptime(row["datetime"]).ok
         THEN [ok |-> FALSE, err |-> "ValueError", val |-> 0]
    ELSE [ok |-> TRUE, err |-> "none", val |-> strptime(row["datetime"]).val]

\* one iteration of the loop of fetch_bars: row -> bar, or the exception
ParseRow(row) ==
    BarOf(Stamped(row), FloatField(row, "open"), FloatField(row, "high"),
          FloatField(row, "low"), FloatField(row, "close"))

\* ------------------------------------------- provider answers (inputs)
\* "09:30", "09:31", and the unparseable "09:60"
RawTimes == {<<9, 30>>, <<9, 31>>, <<9, 60>>}

\* open, high, low, close as the provider's price strings
RawShapes ==
    { [open |-> <<"1", ".", "1", "0", "0", "0">>,
       high |-> <<"1", ".", "1", "0", "1", "0">>,
       low |-> <<"1", ".", "0", "9", "9", "0">>,
       close |-> <<"1", ".", "1", "0", "0", "5">>],
      [open |-> <<"1", ".", "1", "0", "0", "0">>,
       high |-> <<"1", ".", "1", "0", "1", "2">>,
       low |-> <<"1", ".", "1", "0", "0", "0">>,
       close |-> <<"1", ".", "1", "0", "1", "0">>] }

\* a text that is no number
NotANumber == <<"n", "/", "a">>

\* the price strings of a shape
ShapeA == CHOOSE s \in RawShapes : s.high = <<"1", ".", "1", "0", "1", "0">>

\* the prices of ShapeA as float() also accepts them: a trailing vertical
\* tab, Arabic-Indic digits, a leading no-break space
ShapeAWide ==
    [open |-> ShapeA.open \o <<VT>>,
     high |-> <<"U+0661", ".", "U+0661", "U+0660", "U+0661", "U+0660">>,
     low |-> <<NBSP>> \o ShapeA.low,
     close |-> ShapeA.close]

\* well-formed rows, one of them written as ShapeAWide; a row with the
\* unparseable datetime; rows without
\* "open", one of them with the unparseable datetime; a row whose "open" is
\* the empty string and whose "high" is missing; a row whose "close" is no
\* number; a row whose "high" is no number and whose "close" is missing; a
\* row without "high"; a row without "datetime"
RawRows ==
    { [datetime |-> t, open |-> s.open, high |-> s.high,
       low |-> s.low, close |-> s.close] :
          t \in RawTimes \ {<<9, 60>>}, s \in RawShapes }
    \cup { [datetime |-> <<9, 31>>, open |-> ShapeAWide.open,
            high |-> ShapeAWide.high, low |-> ShapeAWide.low,
            close |-> ShapeAWide.close] }
    \cup { [datetime |-> t, high |-> ShapeA.high, low |-> ShapeA.low,
            close |-> ShapeA.close] : t \in {<<9, 30>>, <<9, 60>>} }
    \cup { [datetime |-> <<9, 60>>, open |-> ShapeA.open, high |-> ShapeA.high,
            low |-> ShapeA.low, close |-> ShapeA.close],
           [datetime |-> <<9, 30>>, open |-> <<>>,
            low |-> ShapeA.low, close |-> ShapeA.close],
           [datetime |-> <<9, 31>>, open |-> ShapeA.open, high |-> ShapeA.high,
            low |-> ShapeA.low, close |-> NotANumber],
           [datetime |-> <<9, 30>>, open |-> ShapeA.open, high |-> NotANumber,
            low |-> ShapeA.low],
           [datetime |-> <<9, 31>>, open |-> ShapeA.open,
            low |-> ShapeA.low, close |-> ShapeA.close],
           [open |-> ShapeA.open, high |-> ShapeA.high,
            low |-> ShapeA.low, close |-> ShapeA.close] }

SeqsUpTo(S, n) == UNION { [1..k -> S] : k \in 0..n }

Responses ==
    { [http |-> "ok", status |-> "ok", values |-> v] :
        v \in SeqsUpTo(RawRows, Min(MaxRows, outputsize)) }
    \cup { [http |-> "fail", status |-> "none", values |-> <<>>],
           [http |-> "ok", status |-> "error", values |-> <<>>] }

NoData == [http |-> "none", status |-> "none", values |-> <<>>]

\* SKIP_DB, and whether DB_NAME .. DB_PORT are all set
Cfgs == { [skip_db |-> FALSE, db_secrets |-> TRUE],
          [skip_db |-> FALSE, db_secrets |-> FALSE],
          [skip_db |-> TRUE, db_secrets |-> FALSE] }

\* the entry of x in the table tbl of values computed once, else the value
Memo(tbl, x, value) == IF x \in DOMAIN tbl THEN tbl[x] ELSE value

\* ParseRow of each row the provider sends, computed once
RowTable == [row \in RawRows |-> ParseRow(row)]

Parsed(row) == Memo(RowTable, row, ParseRow(row))

IsOk(r) == r.ok

\* the bars of the parse results ps, when every row parsed
BarsOf(ps) == [i \in 1..Len(ps) |-> ps[i].bar]

\* position of the first row of ps that raised
FirstRaise(ps) == CHOOSE i \in 1..Len(ps) : ~ps[i].ok /\ \A j \in 1..(i - 1) : ps[j].ok

\* faulty variant: a row that does not parse is dropped silently
CollectSkipMutant(ps) ==
    [ok |-> TRUE, bars |-> BarsOf(SelectSeq(ps, IsOk)), err |-> "none"]

\* bars.append(...) row by row: all the bars, or the first exception raised
\* and no list at all
Collect(ps) ==
    IF \A i \in 1..Len(ps) : ps[i].ok
    THEN [ok |-> TRUE, bars |-> BarsOf(ps), err |-> "none"]
    ELSE [ok |-> FALSE, bars |-> <<>>, err |-> ps[FirstRaise(ps)].err]

\* the loop over the rows rs
ParseLoop(rs) == Collect([i \in 1..Len(rs) |-> Parsed(rs[i])])

\* faulty variant: the provider's order is kept
FetchOrderReversedMutant(values) == values

\* for row in reversed(values)
FetchOrder(values) == Reverse(values)

\* fetch_bars on the provider's answer
fetch_bars(resp) ==
    IF resp.http # "ok" THEN [ok |-> FALSE, bars |-> <<>>, err |-> "HTTPError"]
    ELSE IF resp.status = "error"
         THEN [ok |-> FALSE, bars |-> <<>>, err |-> "RuntimeError"]
    ELSE ParseLoop(FetchOrder(resp.values))

\* -------------------------------------------------- metrics (add_metrics)
\* 10000.0
PipFactor == FromInt(10000)

\* 0.7
Threshold == float(<<"0", ".", "7">>).val

\* faulty variant: the division is not guarded
ScoreNoGuardMutant(pip_oc, pip_hl) == TrueDiv(FAbs(pip_oc), pip_hl)

\* abs(pip_oc) / pip_hl if pip_hl != 0 else 0.0
Score(pip_oc, pip_hl) ==
    IF ~IsZero(pip_hl) THEN TrueDiv(FAbs(pip_oc), pip_hl)
    ELSE [ok |-> TRUE, val |-> Zero(FALSE)]

\* "high" if confidence_score > 0.7 else "low"
Tag(score) == IF FGreater(score, Threshold) THEN "high" ELSE "low"

\* (a - b) * 10000.0
Pips(a, b) == FMul(FSub(a, b), PipFactor)

\* the returned dict, given the values assigned before it; sc is the score
\* or the ZeroDivisionError (ok = FALSE)
Enriched(bar, pip_hl, pip_oc, sc) ==
    [ok |-> sc.ok,
     row |-> [symbol |-> bar.symbol, datetime |-> bar.datetime,
              open |-> bar.open, high |-> bar.high,
              low |-> bar.low, close |-> bar.close,
              pip_hl |-> pip_hl, pip_oc |-> pip_oc,
              confidence_score |-> sc.val,
              confidence_tag |-> Tag(sc.val)]]

\* confidence_score from pip_hl and pip_oc, then the rest
Scored(bar, pip_hl, pip_oc) == Enriched(bar, pip_hl, pip_oc, Score(pip_oc, pip_hl))

\* the enriched row, or ZeroDivisionError (ok = FALSE)
add_metrics(bar) ==
    Scored(bar, Pips(bar.high, bar.low), Pips(bar.close, bar.open))

\* the bars the provider's rows parse into
ValidBars == { r.bar : r \in { q \in { RowTable[row] : row \in RawRows } : q.ok } }

\* add_metrics of each of these bars, computed once
MetricsTable == [bar \in ValidBars |-> add_metrics(bar)]

Metrics(bar) == Memo(MetricsTable, bar, add_metrics(bar))

\* ------------------------------------------------------------- state
VARIABLES
    pc,          \* pc[p]: where process p stands in main() / upsert_rows()
    entry,       \* entry[p]: "main" or "upsert_rows", the function invoked
    run,         \* run[p]: number of the scheduled run
    cfg,         \* cfg[p]: the run's environment
    data,        \* data[p]: the provider's answer received by fetch_bars
    bars,        \* bars[p]: main's bars
    rows,        \* rows[p]: main's rows / the argument of upsert_rows
    out,         \* out[p]: what the run printed last
    ret,         \* ret[p]: the value upsert_rows returned
    stages,      \* stages[p]: the stages the run went through, in order
    idx,         \* idx[p]: next row of the INSERT statement
    txn,         \* txn[p]: row versions written by p's open transaction
    pre,         \* pre[p]: forex_bars when upsert_rows was called
    table,       \* committed rows of forex_bars
    tableExists, \* whether forex_bars has been created
    seq,         \* next value of the id sequence
    last         \* rows and resulting table of the latest completed upsert

vars == <<pc, entry, run, cfg, data, bars, rows, out, ret, stages, idx, txn,
          pre, table, tableExists, seq, last>>

\* ------------------------------------------------ forex_bars (DDL, SQL)
Key(r) == <<r.symbol, r.datetime>>

Keys(S) == { Key(r) : r \in S }

BatchKeys(rs) == { Key(rs[i]) : i \in 1..Len(rs) }

\* faulty variant: a plain INSERT on a table without the unique constraint
ConflictNeverMutant(tbl, r) == {}

\* ON CONFLICT (symbol, "datetime"): the stored rows the new row collides with
Conflict(tbl, r) == { t \in tbl : Key(t) = Key(r) }

\* faulty variant: the price columns are left out of DO UPDATE SET
OverwriteKeepPricesMutant(t, r) ==
    [t EXCEPT !.pip_hl = r.pip_hl, !.pip_oc = r.pip_oc,
              !.confidence_score = r.confidence_score,
              !.confidence_tag = r.confidence_tag]

\* DO UPDATE SET open = EXCLUDED.open, ... confidence_tag = EXCLUDED.confidence_tag
Overwrite(t, r) ==
    [t EXCEPT !.open = r.open, !.high = r.high, !.low = r.low,
              !.close = r.close, !.pip_hl = r.pip_hl, !.pip_oc = r.pip_oc,
              !.confidence_score = r.confidence_score,
              !.confidence_tag = r.confidence_tag]

\* INSERT INTO forex_bars (symbol, "datetime", ...) with id from the sequence
NewRow(id, r) ==
    [id |-> id, symbol |-> r.symbol, datetime |-> r.datetime,
     open |-> r.open, high |-> r.high, low |-> r.low, close |-> r.close,
     pip_hl |-> r.pip_hl, pip_oc |-> r.pip_oc,
     confidence_score |-> r.confidence_score,
     confidence_tag |-> r.confidence_tag]

\* the row version the statement writes for r
Written(tbl, id, r) ==
    IF Conflict(tbl, r) = {} THEN NewRow(id, r)
    ELSE Overwrite(CHOOSE t \in Conflict(tbl, r) : TRUE, r)

Ids(S) == { r.id : r \in S }

\* faulty variant: the rows written so far are committed on an exception
RollbackKeepsMutant(tbl, written) ==
    { t \in tbl : t.id \notin Ids(written) } \cup written

\* leaving "with conn" on an exception: conn.rollback()
Rollback(tbl, written) == tbl

\* leaving "with conn" normally: conn.commit()
CommitTxn(tbl, written) ==
    { t \in tbl : t.id \notin Ids(written) } \cup written

\* variant: the count of rows is returned
ReturnCountMutant(rs) == [kind |-> "int", val |-> Len(rs)]

\* upsert_rows ends with a bare return / falls off its end
ReturnValue(rs) == [kind |-> "None"]

\* print(f"Upserted {len(rows)} rows up to {rows[-1]['datetime']...}")
Report(rs) ==
    [kind |-> "upserted", count |-> Len(rs), latest |-> rs[Len(rs)].datetime]

Unset == [kind |-> "unset"]

\* ---------------------------------------------------------- stepping
Set(f, p, v) == [f EXCEPT ![p] = v]

Stage(p, name) == stages' = [stages EXCEPT ![p] = Append(@, name)]

\* an exception leaves main(): "ERROR: ..." is printed and the run fails
Raise(p, err) ==
    /\ pc' = Set(pc, p, "failed")
    /\ out' = Set(out, p, [kind |-> "error", err |-> err])
    /\ Stage(p, "FAILED")

\* --------------------------------------------------------- main: fetch
\* bars = fetch_bars(...), res being what fetch_bars returns or raises
Fetching(p, res) ==
    IF res.ok
    THEN /\ bars' = Set(bars, p, res.bars)
         /\ pc' = Set(pc, p, "fetched")
         /\ Stage(p, "FETCHED")
         /\ out' = out
    ELSE /\ bars' = bars
         /\ Raise(p, res.err)

\* bars = fetch_bars(outputsize=10)
Fetch(p) ==
    /\ pc[p] = "start"
    /\ \E resp \in Responses :
         /\ data' = Set(data, p, resp)
         /\ Fetching(p, fetch_bars(resp))
    /\ UNCHANGED <<entry, run, cfg, rows, ret, idx, txn, pre, table,
                   tableExists, seq, last>>

\* faulty variant: the empty check is missing
NoBarsNeverMutant(bs) == FALSE

\* if not bars
NoBars(bs) == bs = <<>>

\* rows = [add_metrics(b) for b in bars], ms being the results of add_metrics
\* bar by bar: the list of the rows, or the exception raised
Enriching(p, ms) ==
    IF \A i \in 1..Len(ms) : ms[i].ok
    THEN /\ rows' = Set(rows, p, [i \in 1..Len(ms) |-> ms[i].row])
         /\ pc' = Set(pc, p, "enriched")
         /\ Stage(p, "ENRICHED")
         /\ out' = out
    ELSE /\ rows' = rows
         /\ Raise(p, "ZeroDivisionError")

\* if not bars: print("No bars fetched."); return
\* rows = [add_metrics(b) for b in bars]
Enrich(p) ==
    /\ pc[p] = "fetched"
    /\ IF NoBars(bars[p])
       THEN /\ out' = Set(out, p, [kind |-> "no_bars"])
            /\ pc' = Set(pc, p, "done")
            /\ Stage(p, "DONE")
            /\ rows' = rows
       ELSE Enriching(p, [i \in 1..Len(bars[p]) |-> Metrics(bars[p][i])])
    /\ UNCHANGED <<entry, run, cfg, data, bars, ret, idx, txn, pre, table,
                   tableExists, seq, last>>

\* bars[-5:]
LastFive(s) == SubSeq(s, IF Len(s) > 5 THEN Len(s) - 4 ELSE 1, Len(s))

\* if SKIP_DB: print(...); return
\* if missing_db: print(...); sys.exit(1)
ConfigGate(p) ==
    /\ pc[p] = "enriched"
    /\ IF cfg[p].skip_db
       THEN /\ out' = Set(out, p,
                 [kind |-> "skip_db",
                  stamps |-> [i \in 1..Len(LastFive(bars[p])) |->
                                 LastFive(bars[p])[i].datetime]])
            /\ pc' = Set(pc, p, "done")
            /\ Stage(p, "DONE")
       ELSE IF ~cfg[p].db_secrets
       THEN /\ out' = Set(out, p, [kind |-> "exit", code |-> 1])
            /\ pc' = Set(pc, p, "failed")
            /\ Stage(p, "FAILED")
       ELSE /\ pc' = Set(pc, p, "ensure")
            /\ UNCHANGED <<out, stages>>
    /\ UNCHANGED <<entry, run, cfg, data, bars, rows, ret, idx, txn, pre,
                   table, tableExists, seq, last>>

\* ------------------------------------------------------- ensure_table
\* connect; SET statement_timeout; CREATE TABLE IF NOT EXISTS; commit; close
EnsureTable(p) ==
    /\ pc[p] = "ensure"
    /\ tableExists' = TRUE
    /\ pc' = Set(pc, p, "upsert")
    /\ Stage(p, "SCHEMA_READY")
    /\ UNCHANGED <<entry, run, cfg, data, bars, rows, out, ret, idx, txn,
                   pre, table, seq, last>>

\* faulty variant: the error of ensure_table is reported and main goes on
EnsureErrorSwallowedMutant(p) ==
    /\ pc[p] = "ensure"
    /\ out' = Set(out, p, [kind |-> "error", err |-> "StorageError"])
    /\ pc' = Set(pc, p, "upsert")
    /\ Stage(p, "FAILED")
    /\ UNCHANGED <<entry, run, cfg, data, bars, rows, ret, idx, txn, pre,
                   table, tableExists, seq, last>>

\* psycopg2.connect or the DDL raises (connectivity, timeout)
EnsureError(p) ==
    /\ pc[p] = "ensure"
    /\ Raise(p, "StorageError")
    /\ UNCHANGED <<entry, run, cfg, data, bars, rows, ret, idx, txn, pre,
                   table, tableExists, seq, last>>

\* -------------------------------------------------------- upsert_rows
\* if not rows: return;  else build vals and psycopg2.connect(**DB_CONFIG)
UpsertBegin(p) ==
    /\ pc[p] = "upsert"
    /\ pre' = Set(pre, p, table)
    /\ IF rows[p] = <<>>
       THEN /\ ret' = Set(ret, p, ReturnValue(rows[p]))
            /\ pc' = Set(pc, p, "persisted")
            /\ Stage(p, "PERSISTED")
            /\ UNCHANGED <<idx, txn>>
       ELSE /\ pc' = Set(pc, p, "u_exec")
            /\ idx' = Set(idx, p, 1)
            /\ txn' = Set(txn, p, {})
            /\ UNCHANGED <<ret, stages>>
    /\ UNCHANGED <<entry, run, cfg, data, bars, rows, out, table,
                   tableExists, seq, last>>

\* faulty variant: no wait on a key held by another transaction
BlockedNeverMutant(p, r) == FALSE

\* the row's key is held by another transaction that has not ended: the
\* unique index makes the statement wait for it
Blocked(p, r) == \E q \in Procs \ {p} : Key(r) \in Keys(txn[q])

\* execute_values(cur, sql, vals): the statement takes up its next row.
\* It waits while another open transaction holds the row's key; a missing
\* table, or a key the statement already wrote, aborts it.
ExecRow(p) ==
    /\ pc[p] = "u_exec"
    /\ LET r == rows[p][idx[p]] IN
       /\ ~Blocked(p, r)
       /\ IF ~tableExists \/ Key(r) \in Keys(txn[p])
          THEN /\ txn' = Set(txn, p, {})
               /\ table' = Rollback(table, txn[p])
               /\ seq' = IF tableExists THEN seq + 1 ELSE seq
               /\ idx' = idx
               /\ Raise(p, "StorageError")
          ELSE /\ txn' = Set(txn, p, txn[p] \cup {Written(table, seq, r)})
               /\ seq' = seq + 1
               /\ idx' = Set(idx, p, idx[p] + 1)
               /\ pc' = Set(pc, p, IF idx[p] = Len(rows[p])
                                   THEN "u_commit" ELSE "u_exec")
               /\ UNCHANGED <<table, out, stages>>
    /\ UNCHANGED <<entry, run, cfg, data, bars, rows, ret, pre,
                   tableExists, last>>

\* "with conn" commits; conn.commit(); conn.close(); the function returns
Commit(p) ==
    /\ pc[p] = "u_commit"
    /\ table' = CommitTxn(table, txn[p])
    /\ txn' = Set(txn, p, {})
    /\ ret' = Set(ret, p, ReturnValue(rows[p]))
    /\ pc' = Set(pc, p, "persisted")
    /\ Stage(p, "PERSISTED")
    /\ UNCHANGED <<entry, run, cfg, data, bars, rows, out, idx, pre,
                   tableExists, seq, last>>

\* connect, the statement or the commit raises (connectivity, constraint or
\* type violation, statement timeout): "with conn" rolls back, finally closes
UpsertError(p) ==
    /\ \/ pc[p] = "upsert" /\ rows[p] # <<>>
       \/ pc[p] \in {"u_exec", "u_commit"}
    /\ pre' = IF pc[p] = "upsert" THEN Set(pre, p, table) ELSE pre
    /\ table' = Rollback(table, txn[p])
    /\ txn' = Set(txn, p, {})
    /\ Raise(p, "StorageError")
    /\ UNCHANGED <<entry, run, cfg, data, bars, rows, ret, idx,
                   tableExists, seq, last>>

\* ------------------------------------------------------- main: summary
\* print(f"Upserted {len(rows)} rows up to {rows[-1]['datetime']...}")
Summary(p) ==
    /\ pc[p] = "persisted"
    /\ entry[p] = "main"
    /\ out' = Set(out, p, Report(rows[p]))
    /\ pc' = Set(pc, p, "done")
    /\ Stage(p, "DONE")
    /\ UNCHANGED <<entry, run, cfg, data, bars, rows, ret, idx, txn, pre,
                   table, tableExists, seq, last>>

\* ---------------------------------------------------------- scheduler
Finished(p) ==
    \/ pc[p] \in {"done", "failed"}
    \/ pc[p] = "persisted" /\ entry[p] = "upsert_rows"

\* the external scheduler starts the next run of main()
NextRun(p) ==
    /\ Finished(p)
    /\ run[p] < MaxRuns
    /\ run' = Set(run, p, run[p] + 1)
    /\ \E c \in Cfgs : cfg' = Set(cfg, p, c)
    /\ last' = IF ret[p] = ReturnValue(rows[p]) /\ rows[p] # <<>>
               THEN [rows |-> rows[p], table |-> table] ELSE last
    /\ pc' = Set(pc, p, "start")
    /\ entry' = Set(entry, p, "main")
    /\ data' = Set(data, p, NoData)
    /\ bars' = Set(bars, p, <<>>)
    /\ rows' = Set(rows, p, <<>>)
    /\ out' = Set(out, p, [kind |-> "none"])
    /\ ret' = Set(ret, p, Unset)
    /\ stages' = Set(stages, p, <<"START">>)
    /\ idx' = Set(idx, p, 0)
    /\ pre' = Set(pre, p, table)
    /\ UNCHANGED <<txn, table, tableExists, seq>>

\* ------------------------------------------------------ specifications
Idle(p) ==
    /\ pc[p] = "idle" /\ entry[p] = "none" /\ run[p] = 0
    /\ cfg[p] = [skip_db |-> FALSE, db_secrets |-> TRUE]
    /\ data[p] = NoData /\ bars[p] = <<>> /\ rows[p] = <<>>
    /\ out[p] = [kind |-> "none"] /\ ret[p] = Unset /\ stages[p] = <<>>
    /\ idx[p] = 0 /\ txn[p] = {} /\ pre[p] = {}

TypeShape ==
    /\ pc \in [Procs -> {"idle", "start", "upsert"}]
    /\ entry \in [Procs -> {"none", "main", "upsert_rows"}]
    /\ run \in [Procs -> 0..1]
    /\ cfg \in [Procs -> Cfgs]
    /\ data \in [Procs -> {NoData}]
    /\ bars \in [Procs -> {<<>>}]
    /\ out \in [Procs -> {[kind |-> "none"]}]
    /\ ret \in [Procs -> {Unset}]
    /\ stages \in [Procs -> {<<>>, <<"START">>}]
    /\ idx \in [Procs -> {0}]
    /\ txn \in [Procs -> {{}}]

\* one process runs main() on a new database, again and again
Init ==
    /\ TypeShape
    /\ rows = [p \in Procs |-> <<>>]
    /\ pre = [p \in Procs |-> {}]
    /\ pc[1] = "start" /\ entry[1] = "main" /\ run[1] = 1
    /\ stages[1] = <<"START">>
    /\ Idle(2)
    /\ table = {} /\ tableExists = FALSE /\ seq = 1
    /\ last = [rows |-> <<>>, table |-> {}]

Step(p) ==
    \/ Fetch(p)
    \/ Enrich(p)
    \/ ConfigGate(p)
    \/ EnsureTable(p)
    \/ EnsureError(p)
    \/ UpsertBegin(p)
    \/ ExecRow(p)
    \/ Commit(p)
    \/ UpsertError(p)
    \/ Summary(p)
    \/ NextRun(p)

Next == \E p \in Procs : Step(p)

Spec == Init /\ [][Next]_vars

\* enriched rows of the well-formed provider rows
ValidRows == { MetricsTable[bar].row : bar \in ValidBars }

Batches == SeqsUpTo(ValidRows, MaxRows)

\* batches with one bar per minute, in any order
DistinctBatches ==
    { b \in Batches : \A i, j \in 1..Len(b) : Key(b[i]) = Key(b[j]) => i = j }

\* upsert_rows is called directly first (as a test would); main() runs follow
InitApi ==
    /\ TypeShape
    /\ pc[1] = "upsert" /\ entry[1] = "upsert_rows" /\ run[1] = 1
    /\ stages[1] = <<>>
    /\ cfg[1] = [skip_db |-> FALSE, db_secrets |-> TRUE]
    /\ \E b \in Batches : rows = [p \in Procs |-> IF p = 1 THEN b ELSE <<>>]
    /\ pre = [p \in Procs |-> {}]
    /\ Idle(2)
    /\ table = {} /\ tableExists \in BOOLEAN /\ seq = 1
    /\ last = [rows |-> <<>>, table |-> {}]

SpecApi == InitApi /\ [][Next]_vars

\* two runs reach upsert_rows at the same time, on a table that exists
InitConc ==
    /\ TypeShape
    /\ \A p \in Procs :
         /\ pc[p] = "upsert" /\ entry[p] = "upsert_rows" /\ run[p] = 1
         /\ stages[p] = <<>>
         /\ cfg[p] = [skip_db |-> FALSE, db_secrets |-> TRUE]
    /\ rows \in [Procs -> DistinctBatches \ {<<>>}]
    /\ tableExists = TRUE
    /\ table \in {{}} \cup { {NewRow(1, r)} : r \in ValidRows }
    /\ seq = Cardinality(table) + 1
    /\ pre = [p \in Procs |-> table]
    /\ last = [rows |-> <<>>, table |-> table]

NextConc ==
    \E p \in Procs :
        \/ UpsertBegin(p)
        \/ ExecRow(p)
        \/ Commit(p)
        \/ UpsertError(p)

SpecConc == InitConc /\ [][NextConc]_vars

\* the provider's text of the price 1.0990 + k pips: "1.0993" for k = 3
PriceText(k) ==
    LET d(i) == AsciiDigit(((10990 + k) \div 10^(5 - i)) % 10)
    IN <<d(1), ".", d(2), d(3), d(4), d(5)>>

\* the prices of the grid, as float() reads them
GridPrices == { float(PriceText(k)).val : k \in 0..MaxPrice }

\* add_metrics on every bar of the price grid
InitMetrics ==
    /\ pc = [p \in Procs |-> IF p = 1 THEN "fetched" ELSE "idle"]
    /\ entry = [p \in Procs |-> IF p = 1 THEN "main" ELSE "none"]
    /\ run = [p \in Procs |-> IF p = 1 THEN 1 ELSE 0]
    /\ cfg = [p \in Procs |-> [skip_db |-> FALSE, db_secrets |-> TRUE]]
    /\ stages = [p \in Procs |-> IF p = 1 THEN <<"START", "FETCHED">> ELSE <<>>]
    /\ data = [p \in Procs |-> NoData]
    /\ \E o \in GridPrices, h \in GridPrices, l \in GridPrices, c \in GridPrices :
         bars = [p \in Procs |->
                   IF p = 1
                   THEN << [symbol |-> SYMBOL, datetime |-> 9 * 60,
                            open |-> o, high |-> h, low |-> l, close |-> c] >>
                   ELSE <<>>]
    /\ rows = [p \in Procs |-> <<>>]
    /\ out = [p \in Procs |-> [kind |-> "none"]]
    /\ ret = [p \in Procs |-> Unset]
    /\ idx = [p \in Procs |-> 0]
    /\ txn = [p \in Procs |-> {}]
    /\ pre = [p \in Procs |-> {}]
    /\ table = {} /\ tableExists = FALSE /\ seq = 1
    /\ last = [rows |-> <<>>, table |-> {}]

NextMetrics == Enrich(1)

SpecMetrics == InitMetrics /\ [][NextMetrics]_vars

\* ===================================================== claims
StageOrderSpec == <<"START", "SCHEMA_READY", "FETCHED", "ENRICHED", "PERSISTED", "DONE">>

StageOrderCode == <<"START", "FETCHED", "ENRICHED", "SCHEMA_READY", "PERSISTED", "DONE">>

IsPrefix(s, t) == Len(s) <= Len(t) /\ \A i \in 1..Len(s) : s[i] = t[i]

\* the stages before the terminal FAILED, if the run failed
BeforeFailure(s) ==
    IF s # <<>> /\ s[Len(s)] = "FAILED" THEN SubSeq(s, 1, Len(s) - 1) ELSE s

Running(p) == entry[p] = "main"

\* C1 as claimed: the stages of every run follow START, SCHEMA_READY, FETCHED,
\* ENRICHED, PERSISTED, DONE (an empty fetch going from FETCHED to DONE), so
\* the schema bootstrap has succeeded before the fetch is issued.
C1_OrderAsClaimed ==
    \A p \in Procs : Running(p) =>
        /\ \/ IsPrefix(BeforeFailure(stages[p]), StageOrderSpec)
           \/ stages[p] = <<"START", "SCHEMA_READY", "FETCHED", "DONE">>
        /\ (data[p] # NoData => tableExists)

\* C1 (amended): the stages of every run of main occur in the order START,
\* FETCHED, ENRICHED, SCHEMA_READY, PERSISTED, DONE: the fetch and the
\* enrichment have succeeded before ensure_table is issued; an empty fetch goes
\* from FETCHED to DONE and a SKIP_DB run from ENRICHED to DONE; any error
\* moves the run directly to the terminal FAILED, no later stage executed.
C1_StageOrder ==
    \A p \in Procs : Running(p) =>
        /\ \/ IsPrefix(BeforeFailure(stages[p]), StageOrderCode)
           \/ stages[p] = <<"START", "FETCHED", "DONE">>
           \/ stages[p] = <<"START", "FETCHED", "ENRICHED", "DONE">>
        /\ \A i \in 1..Len(stages[p]) :
              stages[p][i] \in {"FAILED", "DONE"} => i = Len(stages[p])
        /\ (pc[p] = "failed") = (stages[p][Len(stages[p])] = "FAILED")
        /\ (pc[p] = "done") = (stages[p][Len(stages[p])] = "DONE")
        /\ (pc[p] = "ensure" =>
              stages[p] = <<"START", "FETCHED", "ENRICHED">> /\ rows[p] # <<>>)
        /\ (stages[p][Len(stages[p])] = "SCHEMA_READY" =>
              tableExists /\ pc[p] \in {"upsert", "u_exec", "u_commit"})
        /\ (run[p] = 1 /\ Len(stages[p]) <= 3 /\ ~("SCHEMA_READY" \in
              {stages[p][i] : i \in 1..Len(stages[p])}) => ~tableExists)

C1_Witness ==
    \E p \in Procs : Running(p) /\ stages[p] = StageOrderCode /\ pc[p] = "done"

\* the stored row with r's key carries r's values in every value column
Stores(tbl, r) ==
    \E t \in tbl :
        /\ t.symbol = r.symbol /\ t.datetime = r.datetime
        /\ t.open = r.open /\ t.high = r.high /\ t.low = r.low
        /\ t.close = r.close /\ t.pip_hl = r.pip_hl /\ t.pip_oc = r.pip_oc
        /\ t.confidence_score = r.confidence_score
        /\ t.confidence_tag = r.confidence_tag

AllStored(p) == \A i \in 1..Len(rows[p]) : Stores(table, rows[p][i])

UpsertCalled(p) == "SCHEMA_READY" \in { stages[p][i] : i \in 1..Len(stages[p]) }

UpsertReturned(p) == ret[p] # Unset

\* C2: upsert_rows is atomic across the batch. While the transaction is open
\* and after any failure of the upsert the stored table is exactly what it
\* was before the call; once the call has returned every row of the batch is
\* stored. No state has only part of the batch committed.
C2_Atomic ==
    \A p \in Procs : Running(p) /\ UpsertCalled(p) =>
        /\ (pc[p] \in {"u_exec", "u_commit", "failed"} => table = pre[p])
        /\ (UpsertReturned(p) => AllStored(p))
        /\ (table = pre[p] \/ AllStored(p))

\* the upsert failed after its statement had taken up part of a two-row batch
C2_Witness ==
    \E p \in Procs :
        /\ Running(p) /\ UpsertCalled(p) /\ pc[p] = "failed"
        /\ Len(rows[p]) = 2 /\ idx[p] = 2
        /\ Key(rows[p][1]) # Key(rows[p][2])
        /\ ~Stores(pre[p], rows[p][1])
        /\ table = pre[p]

NoDuplicateKeys(tbl) == \A t, u \in tbl : Key(t) = Key(u) => t = u

SecondCall(p) ==
    /\ UpsertReturned(p)
    /\ rows[p] = last.rows
    /\ pre[p] = last.table

\* C3: upsert is idempotent. When upsert_rows is called again with the rows
\* of the previous call, on the table that call left, the table after the
\* second call is the table before it (same rows, same count); and no two
\* stored rows ever share a (symbol, datetime) key.
C3_Idempotent ==
    /\ NoDuplicateKeys(table)
    /\ \A p \in Procs : Running(p) /\ SecondCall(p) =>
          /\ table = pre[p]
          /\ Cardinality(table) = Cardinality(last.table)

C3_Witness ==
    \E p \in Procs :
        /\ Running(p) /\ SecondCall(p) /\ pc[p] = "done" /\ run[p] = 2
        /\ Len(rows[p]) = 2 /\ Cardinality(table) = 2

\* C4: conflict overwrite. After upsert_rows has returned, every bar of the
\* batch whose key was already stored has kept its row (same id) with open,
\* high, low, close, pip_hl, pip_oc, confidence_score and confidence_tag set
\* to the bar's values; when every key of the batch was already stored the
\* number of rows is unchanged; rows with other keys are left as they were.
C4_ConflictOverwrite ==
    \A p \in Procs : Running(p) /\ UpsertReturned(p) =>
        /\ \A i \in 1..Len(rows[p]) : \A old \in pre[p] :
              Key(old) = Key(rows[p][i]) =>
                  \E t \in table :
                      /\ t.id = old.id
                      /\ Key(t) = Key(old)
                      /\ t.open = rows[p][i].open
                      /\ t.high = rows[p][i].high
                      /\ t.low = rows[p][i].low
                      /\ t.close = rows[p][i].close
                      /\ t.pip_hl = rows[p][i].pip_hl
                      /\ t.pip_oc = rows[p][i].pip_oc
                      /\ t.confidence_score = rows[p][i].confidence_score
                      /\ t.confidence_tag = rows[p][i].confidence_tag
        /\ (BatchKeys(rows[p]) \subseteq Keys(pre[p]) =>
              Cardinality(table) = Cardinality(pre[p]))
        /\ \A t \in pre[p] : Key(t) \notin BatchKeys(rows[p]) => t \in table
        /\ \A t \in table : Key(t) \notin BatchKeys(rows[p]) => t \in pre[p]
        /\ NoDuplicateKeys(table)

\* a stored bar was overwritten with different prices beside an untouched row
C4_Witness ==
    \E p \in Procs :
        /\ Running(p) /\ UpsertReturned(p) /\ Len(rows[p]) = 1
        /\ \E old \in pre[p] :
              /\ Key(old) = Key(rows[p][1])
              /\ old.high # rows[p][1].high
              /\ old.confidence_tag # rows[p][1].confidence_tag
        /\ \E t \in pre[p] : Key(t) # Key(rows[p][1])

GotValues(p) == data[p].http = "ok" /\ data[p].status = "ok"

Stamp(row) == strptime(row["datetime"]).val

WellFormed(vs) == \A i \in 1..Len(vs) : Parsed(vs[i]).ok

\* newest first; two bars of the same minute may follow each other
Descending(vs) == \A i, j \in 1..Len(vs) : i < j => Stamp(vs[i]) >= Stamp(vs[j])

DistinctStamps(vs) == \A i, j \in 1..Len(vs) : i # j => Stamp(vs[i]) # Stamp(vs[j])

MaxStamp(vs) == CHOOSE m \in { Stamp(vs[i]) : i \in 1..Len(vs) } :
                    \A i \in 1..Len(vs) : Stamp(vs[i]) <= m

\* fetch_bars returned the bars of vs, last one first
SameBarsReversed(p, vs) ==
    /\ Len(bars[p]) = Len(vs)
    /\ \A i \in 1..Len(vs) : bars[p][i] = Parsed(vs[Len(vs) + 1 - i]).bar

\* main reports the maximum timestamp of vs as the latest
LatestIsMax(p, vs) ==
    /\ (rows[p] # <<>> => rows[p][Len(rows[p])].datetime = MaxStamp(vs))
    /\ (out[p].kind = "upserted" => out[p].latest = MaxStamp(vs))

\* C6 as claimed: fetch ordering. For every response whose values are in
\* descending timestamp order, fetch_bars returns the same bars in strictly
\* ascending timestamp order, and the timestamp main reports as the latest
\* is the maximum timestamp of the batch.
C6_AsClaimed ==
    \A p \in Procs :
        Running(p) /\ GotValues(p) /\ WellFormed(data[p].values)
                   /\ Descending(data[p].values) =>
            /\ SameBarsReversed(p, data[p].values)
            /\ \A i, j \in 1..Len(bars[p]) :
                  i < j => bars[p][i].datetime < bars[p][j].datetime
            /\ LatestIsMax(p, data[p].values)

\* C6 (amended): fetch ordering. For every response whose values are in
\* descending timestamp order, fetch_bars returns the same bars in reverse
\* order, hence in ascending timestamp order, strictly ascending when no two
\* bars of the response carry the same timestamp (two bars of one minute
\* stay next to each other); the timestamp main reports as the latest is
\* the maximum timestamp of the batch.
C6_FetchOrder ==
    \A p \in Procs :
        Running(p) /\ GotValues(p) /\ WellFormed(data[p].values)
                   /\ Descending(data[p].values) =>
            /\ SameBarsReversed(p, data[p].values)
            /\ \A i, j \in 1..Len(bars[p]) :
                  i < j => bars[p][i].datetime <= bars[p][j].datetime
            /\ (DistinctStamps(data[p].values) =>
                  \A i, j \in 1..Len(bars[p]) :
                      i < j => bars[p][i].datetime < bars[p][j].datetime)
            /\ LatestIsMax(p, data[p].values)

\* a response of two bars, newest first, has been fetched, stored and
\* reported
C6_Witness ==
    \E p \in Procs :
        /\ Running(p) /\ GotValues(p) /\ WellFormed(data[p].values)
        /\ Len(data[p].values) = 2 /\ Descending(data[p].values)
        /\ DistinctStamps(data[p].values)
        /\ out[p].kind = "upserted"

\* a price field of the row holds a text that is no number
BadPrice(row) ==
    \E f \in {"open", "high", "low", "close"} \cap DOMAIN row : ~float(row[f]).ok

\* a record lacking a required field, or with an unparseable datetime or
\* price
IsMalformed(row) ==
    \/ \E f \in {"datetime", "open", "high", "low", "close"} : f \notin DOMAIN row
    \/ ~strptime(row["datetime"]).ok
    \/ BadPrice(row)

\* the malformed rows among those the provider sends
MalformedRows == { row \in RawRows : IsMalformed(row) }

Malformed(row) == row \in MalformedRows

\* the row of vs that does not parse and is met first, going from the last
FirstFailing(vs) ==
    vs[CHOOSE i \in 1..Len(vs) :
           ~Parsed(vs[i]).ok /\ \A j \in (i + 1)..Len(vs) : Parsed(vs[j]).ok]

\* C7: a malformed record fails the whole run with nothing written. Wherever
\* the record sits in the values array, fetch_bars raises (the exception of
\* the first record that does not parse, KeyError or ValueError), no bar is
\* returned, the run ends FAILED right after START and the table is unchanged.
C7_MalformedFailsRun ==
    \A p \in Procs :
        Running(p) /\ GotValues(p)
                   /\ (\E i \in 1..Len(data[p].values) :
                          Malformed(data[p].values[i])) =>
            /\ pc[p] = "failed"
            /\ stages[p] = <<"START", "FAILED">>
            /\ out[p].kind = "error"
            /\ out[p].err \in {"KeyError", "ValueError"}
            /\ out[p].err = Parsed(FirstFailing(data[p].values)).err
            /\ bars[p] = <<>> /\ rows[p] = <<>>
            /\ ret[p] = Unset /\ txn[p] = {}
            /\ table = pre[p]

\* the bad record (no number in "open", no "high") is the one parsed last,
\* after a good one, on a filled table
C7_Witness ==
    \E p \in Procs :
        /\ Running(p) /\ GotValues(p) /\ Len(data[p].values) = 2
        /\ "high" \notin DOMAIN data[p].values[1]
        /\ BadPrice(data[p].values[1])
        /\ ~Malformed(data[p].values[2])
        /\ pc[p] = "failed" /\ out[p].err = "ValueError" /\ table # {}

\* the run got an empty values array
EmptyFetch(p) == Running(p) /\ GotValues(p) /\ data[p].values = <<>>

\* nothing is enriched or upserted and the table is unchanged
NothingStored(p) ==
    /\ bars[p] = <<>> /\ rows[p] = <<>>
    /\ ret[p] = Unset /\ txn[p] = {}
    /\ table = pre[p]

\* C8 as claimed: an empty fetch is a successful run. With an empty values
\* array the run goes from FETCHED to DONE, nothing is enriched or upserted,
\* the run reports a rows-written count of 0, the table is unchanged and
\* the run never fails.
C8_ReportsZeroCount ==
    \A p \in Procs :
        EmptyFetch(p) =>
            /\ pc[p] \in {"fetched", "done"}
            /\ IsPrefix(stages[p], <<"START", "FETCHED", "DONE">>)
            /\ (pc[p] = "done" =>
                  /\ stages[p] = <<"START", "FETCHED", "DONE">>
                  /\ out[p].kind = "upserted"
                  /\ out[p].count = 0)
            /\ NothingStored(p)

\* C8 (amended): an empty fetch is a successful run. With an empty values
\* array the run goes from FETCHED to DONE, nothing is enriched or upserted,
\* the only report is the line "No bars fetched.", which carries no
\* rows-written count, the table is unchanged and the run never fails.
C8_EmptyFetch ==
    \A p \in Procs :
        EmptyFetch(p) =>
            /\ pc[p] \in {"fetched", "done"}
            /\ IsPrefix(stages[p], <<"START", "FETCHED", "DONE">>)
            /\ (pc[p] = "done" =>
                  /\ stages[p] = <<"START", "FETCHED", "DONE">>
                  /\ out[p] = [kind |-> "no_bars"])
            /\ out[p].kind \in {"none", "no_bars"}
            /\ NothingStored(p)

\* the second run of a process got an empty values array and is done, on a
\* table the first run filled
C8_Witness ==
    \E p \in Procs :
        /\ EmptyFetch(p)
        /\ pc[p] = "done" /\ run[p] = 2 /\ table # {}

\* x == y
FEqual(x, y) ==
    x.kind # "nan" /\ y.kind # "nan" /\ ~FGreater(x, y) /\ ~FGreater(y, x)

\* x > 7/10, in exact arithmetic
AboveSevenTenths(x) ==
    IF x.kind = "nan" \/ x.neg \/ IsZero(x) THEN FALSE
    ELSE IF x.kind = "inf" THEN TRUE
    ELSE IF x.e >= 0 THEN BCmp(BShl(BMulSmall(x.m, 10), x.e), <<7>>) > 0
    ELSE BCmp(BMulSmall(x.m, 10), BShl(<<7>>, -x.e)) > 0

\* C9: zero-range bars are defined, not an error. add_metrics never raises;
\* for every bar with high == low it gives pip_hl = 0, confidence_score = 0
\* and confidence_tag = "low" whatever open and close are; and for every bar
\* the tag is "high" exactly when confidence_score > 0.7, the score being
\* the float quotient abs(pip_oc) / pip_hl when high # low.
C9_ZeroRange ==
    \A p \in Procs : Running(p) /\ pc[p] # "fetched" =>
        /\ pc[p] # "failed"
        /\ Len(rows[p]) = Len(bars[p])
        /\ \A i \in 1..Len(rows[p]) :
              LET b == bars[p][i]
                  r == rows[p][i]
              IN /\ (FEqual(b.high, b.low) =>
                        /\ IsZero(r.pip_hl)
                        /\ r.confidence_score = Zero(FALSE)
                        /\ r.confidence_tag = "low")
                 /\ (~FEqual(b.high, b.low) =>
                        /\ ~IsZero(r.pip_hl)
                        /\ TrueDiv(FAbs(r.pip_oc), r.pip_hl).ok
                        /\ r.confidence_score =
                              TrueDiv(FAbs(r.pip_oc), r.pip_hl).val)
                 /\ (r.confidence_tag = "high") = AboveSevenTenths(r.confidence_score)
                 /\ r.confidence_tag \in {"high", "low"}

\* a zero-range bar whose open and close differ has been enriched
C9_Witness ==
    \E p \in Procs :
        /\ Running(p) /\ pc[p] = "enriched" /\ Len(rows[p]) = 1
        /\ FEqual(bars[p][1].high, bars[p][1].low)
        /\ ~FEqual(bars[p][1].open, bars[p][1].close)
        /\ ~IsZero(rows[p][1].pip_oc)

\* C10 as claimed: upsert_rows returns the count of rows written, 0 for an
\* empty input, and the summary's rows-written figure is that returned count.
C10_ReturnsCount ==
    \A p \in Procs : UpsertReturned(p) =>
        /\ ret[p].kind = "int"
        /\ ret[p].val = Len(rows[p])
        /\ (out[p].kind = "upserted" => out[p].count = ret[p].val)

\* C10 (amended): upsert_rows returns no value (None), for a non-empty batch
\* and for an empty input alike; the empty call is a no-op and not an error;
\* the rows-written figure of the DONE summary is len(rows), which is the
\* number of rows the committed upsert wrote.
C10_ReturnsNothing ==
    \A p \in Procs :
        /\ (UpsertReturned(p) => ret[p] = [kind |-> "None"])
        /\ (UpsertReturned(p) /\ rows[p] = <<>> =>
              /\ table = pre[p]
              /\ pc[p] = "persisted"
              /\ out[p].kind = "none"
              /\ txn[p] = {})
        /\ (out[p].kind = "upserted" =>
              /\ UpsertReturned(p)
              /\ out[p].count = Len(rows[p])
              /\ out[p].count > 0
              /\ out[p].count =
                    Cardinality({ t \in table : Key(t) \in BatchKeys(rows[p]) })
              /\ AllStored(p))

\* upsert_rows was called with an empty sequence and has returned
C10_Witness ==
    \E p \in Procs :
        /\ entry[p] = "upsert_rows" /\ rows[p] = <<>> /\ UpsertReturned(p)

StripId(t) ==
    [symbol |-> t.symbol, datetime |-> t.datetime,
     open |-> t.open, high |-> t.high, low |-> t.low, close |-> t.close,
     pip_hl |-> t.pip_hl, pip_oc |-> t.pip_oc,
     confidence_score |-> t.confidence_score,
     confidence_tag |-> t.confidence_tag]

Contents(tbl) == { StripId(t) : t \in tbl }

\* contents after a batch with distinct keys has been upserted into contents v
After(v, rs) ==
    { x \in v : Key(x) \notin BatchKeys(rs) } \cup { rs[i] : i \in 1..Len(rs) }

BothCommitted == \A p \in Procs : UpsertReturned(p)

SharedKeys == BatchKeys(rows[1]) \cap BatchKeys(rows[2])

Agree ==
    \A i \in 1..Len(rows[1]), j \in 1..Len(rows[2]) :
        Key(rows[1][i]) = Key(rows[2][j]) => rows[1][i] = rows[2][j]

\* C5 as claimed: once two concurrent runs with shared keys have both
\* committed, the table is the same for every interleaving (so it is what
\* run 1 followed by run 2 leaves), with one row per key.
C5_ConvergesAsClaimed ==
    BothCommitted /\ SharedKeys # {} =>
        /\ Contents(table) = After(After(Contents(last.table), rows[1]), rows[2])
        /\ NoDuplicateKeys(table)

\* C5 (amended): once two concurrent runs have both committed, the table has
\* exactly one row per key and, apart from the surrogate id, is what the two
\* upserts leave when run one after the other in one of the two orders (a
\* shared key holds the later committer's values); the final state is the same
\* for every interleaving when the batches agree on every shared key.
C5_Serializable ==
    /\ NoDuplicateKeys(table)
    /\ BothCommitted =>
          LET v0 == Contents(last.table)
              v12 == After(After(v0, rows[1]), rows[2])
              v21 == After(After(v0, rows[2]), rows[1])
          IN /\ Contents(table) \in {v12, v21}
             /\ Cardinality(table) = Cardinality(Contents(table))
             /\ Keys(table) = Keys(last.table) \cup BatchKeys(rows[1])
                                               \cup BatchKeys(rows[2])
             /\ (Agree => Contents(table) = v12 /\ v12 = v21)

\* both runs committed batches that share a key with different values
C5_Witness ==
    /\ BothCommitted /\ SharedKeys # {} /\ ~Agree
    /\ Len(rows[1]) = 2 /\ Len(rows[2]) = 2
    /\ Contents(table) # After(After(Contents(last.table), rows[1]), rows[2])

====
